---- MODULE Spec2Model ----
(***************************************************************************)
(* A model of watson/watson.py: the Watson store (project tree, running   *)
(* session), its persistence to the Watson file and its push to the       *)
(* remote frames endpoint.                                                 *)
(*                                                                         *)
(* Representation.                                                         *)
(*   - A Python str that the code takes apart (a project name) is a        *)
(*     sequence of one-character strings; '/' is Sep.  Opaque strings      *)
(*     (messages, remote ids, error texts) are TLA+ strings.               *)
(*   - A dict with optional keys is a record whose DOMAIN holds the keys   *)
(*     present.  None in a dict-typed position is the empty record <<>>    *)
(*     (both are falsy in Python); None in a scalar position is the        *)
(*     string "None".                                                      *)
(*   - The nested dict self.tree is flattened: a node is addressed by the  *)
(*     sequence of segments leading to it (the root by <<>>), and carries  *)
(*     its 'frames' list and the keys of its 'projects' dict in the dict's *)
(*     iteration (insertion) order.                                        *)
(*   - An instant is a number of clock ticks, TicksPerSec to the second.   *)
(*     An arrow.Arrow object is Arrow(t); a Python int in a slot that may  *)
(*     also hold an Arrow is PyInt(n); persisted timestamps are integers   *)
(*     (seconds).                                                          *)
(***************************************************************************)
EXTENDS Integers, Sequences, FiniteSets, TLC

\* ---------------------------------------------------------------- bounds

\* The clock runs from tick 0 to tick MaxClock.
MaxClock == 2
\* Clock ticks per second (arrow.now() is finer than the persisted second).
TicksPerSec == 2
\* No more than MaxFrames frames are recorded in the tree.
MaxFrames == 2

VARIABLES
    tree,      \* self.tree: node key -> [frames, projects]
    current,   \* self._current: NoneDict or [project, start]
    file,      \* what is stored at self.filename
    now,       \* the wall clock, in ticks
    ret,       \* the latest call and its outcome: [op, arg, err, val]
    sent,      \* the requests the latest call issued to the remote, in order
    other      \* a second process on the same Watson file: its Watson
               \* object and what its latest call returned

vars == <<tree, current, file, now, ret, sent, other>>

\* ------------------------------------------------------------ Python values

None == "None"
NoneDict == << >>

Sep == "/"

\* Code points of the characters used in project names.
Ord(c) ==
    CASE c = " " -> 32
      [] c = "-" -> 45
      [] c = "/" -> 47
      [] c = "a" -> 97
      [] c = "b" -> 98
      [] c = "c" -> 99

\* str < str: lexicographic by code point, a proper prefix first.
RECURSIVE StrLess(_, _)
StrLess(a, b) ==
    IF b = << >> THEN FALSE
    ELSE IF a = << >> THEN TRUE
    ELSE IF Ord(Head(a)) < Ord(Head(b)) THEN TRUE
    ELSE IF Ord(Head(a)) > Ord(Head(b)) THEN FALSE
    ELSE StrLess(Tail(a), Tail(b))

\* sorted(seq, key=...): a stable sort.  less[k][j] tells whether the key of
\* seq[k] is smaller than the key of seq[j]; element j goes after every
\* element with a smaller key and after every earlier element with an equal
\* key.
sorted(seq, less) ==
    LET n == Len(seq)
        rank(j) == 1 + Cardinality({k \in 1..n :
                        \/ less[k][j]
                        \/ (k < j /\ ~less[j][k])})
    IN  [i \in 1..n |-> seq[CHOOSE j \in 1..n : rank(j) = i]]

\* name.split('/')
RECURSIVE SplitFrom(_, _, _)
SplitFrom(s, word, acc) ==
    IF s = << >> THEN Append(acc, word)
    ELSE IF Head(s) = Sep THEN SplitFrom(Tail(s), << >>, Append(acc, word))
    ELSE SplitFrom(Tail(s), Append(word, Head(s)), acc)

split(s) == SplitFrom(s, << >>, << >>)

\* ------------------------------------------------------------------- time

Arrow(t) == [kind |-> "Arrow", t |-> t]
PyInt(n) == [kind |-> "int", t |-> n]

\* arrow.now()
arrow_now == Arrow(now)

\* arrow.get(timestamp), arrow.Arrow.utcfromtimestamp(timestamp)
utcfromtimestamp(n) == Arrow(n * TicksPerSec)

\* Arrow.timestamp: whole seconds since the epoch
timestamp(a) == a.t \div TicksPerSec

_parse_date(date) == utcfromtimestamp(date)

_format_date(date) ==
    IF date.kind = "Arrow" THEN timestamp(date)
    ELSE timestamp(utcfromtimestamp(date.t))

\* ------------------------------------------------------------ the tree

EmptyNode == [frames |-> << >>, projects |-> << >>]

\* {'projects': {}}
EmptyTree == [k \in {<< >>} |-> EmptyNode]

InSeq(x, s) == \E i \in 1..Len(s) : s[i] = x

\* Whether the sequence a is a prefix of the sequence b.
IsPrefix(a, b) == Len(a) <= Len(b) /\ SubSeq(b, 1, Len(a)) = a

\* The loop without its test `name not in project['projects']`: every node on
\* the way is replaced by a new, empty one.
RECURSIVE Descend_recreate(_, _, _)
Descend_recreate(t, key, segs) ==
    IF segs = << >> THEN t
    ELSE LET name == Head(segs)
             child == Append(key, name)
             kept == {k \in DOMAIN t : ~IsPrefix(child, k)}
             t1 == [k \in kept \cup {child} |->
                     IF k = child THEN EmptyNode
                     ELSE IF k = key /\ ~InSeq(name, t[key].projects)
                          THEN [t[k] EXCEPT !.projects = Append(@, name)]
                          ELSE t[k]]
         IN  Descend_recreate(t1, child, Tail(segs))

\* Watson.project's loop: from node `key` of t, walk down `segs`, creating
\* the nodes that are missing.
RECURSIVE Descend(_, _, _)
Descend(t, key, segs) ==
    IF segs = << >> THEN t
    ELSE LET name == Head(segs)
             child == Append(key, name)
             t1 == IF InSeq(name, t[key].projects) THEN t
                   ELSE [k \in DOMAIN t \cup {child} |->
                           IF k = child THEN EmptyNode
                           ELSE IF k = key
                                THEN [t[k] EXCEPT !.projects = Append(@, name)]
                                ELSE t[k]]
         IN  Descend(t1, child, Tail(segs))

\* The tree after self.project(name), and the node it returns.
project_tree(t, name) == Descend(t, << >>, split(name))
project_node(name) == split(name)

\* Watson.projects.get_projects
RECURSIVE get_projects(_, _, _, _)
get_projects(t, key, parent, i) ==
    IF i > Len(t[key].projects) THEN << >>
    ELSE LET name == parent \o t[key].projects[i]
         IN  <<name>>
             \o get_projects(t, Append(key, t[key].projects[i]), name \o <<Sep>>, 1)
             \o get_projects(t, key, parent, i + 1)

\* projects without the sort.
projects_unsorted(t) == get_projects(t, << >>, << >>, 1)

projects(t) ==
    LET ps == get_projects(t, << >>, << >>, 1)
    IN  sorted(ps, [k \in 1..Len(ps) |->
                      [j \in 1..Len(ps) |-> StrLess(ps[k], ps[j])]])

Get(d, k) == IF k \in DOMAIN d THEN d[k] ELSE None

\* Watson.frames.get_frames: the frames of node `key`'s children from the
\* i-th on, each child's own frames before its descendants'.
RECURSIVE get_frames(_, _, _, _)
get_frames(t, key, ancestors, i) ==
    IF i > Len(t[key].projects) THEN << >>
    ELSE LET name == t[key].projects[i]
             child == t[Append(key, name)]
         IN  [j \in 1..Len(child.frames) |->
                 [project |-> ancestors \o name,
                  id |-> Get(child.frames[j], "id"),
                  start |-> _parse_date(child.frames[j].start),
                  stop |-> _parse_date(child.frames[j].stop)]]
             \o get_frames(t, Append(key, name), ancestors \o name \o <<Sep>>, 1)
             \o get_frames(t, key, ancestors, i + 1)

\* key=lambda e: e['start']
StartLess(e, f) == e.start.t < f.start.t

\* frames without the sort.
frames_unsorted(t) == get_frames(t, << >>, << >>, 1)

frames(t) ==
    LET fs == get_frames(t, << >>, << >>, 1)
    IN  sorted(fs, [k \in 1..Len(fs) |->
                      [j \in 1..Len(fs) |-> StartLess(fs[k], fs[j])]])

\* add_frame with the two instants taken in the wrong order.
add_frame_swapped(t, project, start, stop, message) ==
    LET frame == [start |-> _format_date(stop), stop |-> _format_date(start)]
        t1 == project_tree(t, project)
    IN  [t1 EXCEPT ![project_node(project)].frames = Append(@, frame)]

\* add_frame that puts the new frame first in the list of its project.
add_frame_first(t, project, start, stop, message) ==
    LET frame0 == [start |-> _format_date(start), stop |-> _format_date(stop)]
        frame == IF message # None /\ message # ""
                 THEN [start |-> frame0.start, stop |-> frame0.stop,
                       message |-> message]
                 ELSE frame0
        t1 == project_tree(t, project)
    IN  [t1 EXCEPT ![project_node(project)].frames = <<frame>> \o @]

\* Watson.add_frame: the tree afterwards.
add_frame(t, project, start, stop, message) ==
    LET frame0 == [start |-> _format_date(start), stop |-> _format_date(stop)]
        frame == IF message # None /\ message # ""
                 THEN [start |-> frame0.start, stop |-> frame0.stop,
                       message |-> message]
                 ELSE frame0
        t1 == project_tree(t, project)
    IN  [t1 EXCEPT ![project_node(project)].frames = Append(@, frame)]

\* ------------------------------------------------------------ the session

\* The `current` getter: None, or a copy of self._current.
current_get(c) == IF c = NoneDict THEN NoneDict ELSE c

is_started(c) == current_get(c) # NoneDict

\* The setter without its use of value['start']: every session starts now.
current_set_now(value) ==
    IF value = NoneDict \/ "project" \notin DOMAIN value THEN NoneDict
    ELSE [project |-> value.project, start |-> arrow_now]

\* The `current` setter: the new self._current.
current_set(value) ==
    IF value = NoneDict \/ "project" \notin DOMAIN value THEN NoneDict
    ELSE [project |-> value.project,
          start |-> IF "start" \in DOMAIN value THEN PyInt(value.start)
                    ELSE arrow_now]

NFrames(t) == Len(get_frames(t, << >>, << >>, 1))

Result(op, arg, err, val) == [op |-> op, arg |-> arg, err |-> err, val |-> val]

Tick ==
    /\ now < MaxClock
    /\ now' = now + 1
    /\ ret' = Result("tick", None, "", None)
    /\ sent' = << >>
    /\ UNCHANGED <<tree, current, file, other>>

\* start without the check that no session is running.
start_restarts(project) ==
    /\ sent' = << >>
    /\ UNCHANGED <<tree, file, now, other>>
    /\ IF project = << >>
       THEN /\ ret' = Result("start", project, "No project given.", None)
            /\ UNCHANGED current
       ELSE /\ current' = current_set([project |-> project])
            /\ ret' = Result("start", project, "", current_get(current'))

\* start that creates the node of the project in the tree.
start_creates(project) ==
    /\ sent' = << >>
    /\ UNCHANGED <<file, now, other>>
    /\ IF is_started(current)
       THEN /\ ret' = Result("start", project, "Project is already started.", None)
            /\ UNCHANGED <<tree, current>>
       ELSE IF project = << >>
       THEN /\ ret' = Result("start", project, "No project given.", None)
            /\ UNCHANGED <<tree, current>>
       ELSE /\ tree' = project_tree(tree, project)
            /\ current' = current_set([project |-> project])
            /\ ret' = Result("start", project, "", current_get(current'))

start(project) ==
    /\ sent' = << >>
    /\ UNCHANGED <<tree, file, now, other>>
    /\ IF is_started(current)
       THEN /\ ret' = Result("start", project, "Project is already started.", None)
            /\ UNCHANGED current
       ELSE IF project = << >>
       THEN /\ ret' = Result("start", project, "No project given.", None)
            /\ UNCHANGED current
       ELSE /\ current' = current_set([project |-> project])
            /\ ret' = Result("start", project, "", current_get(current'))

\* stop that hands the two instants to add_frame in the wrong order.
stop_swapped(message) ==
    /\ sent' = << >>
    /\ UNCHANGED <<file, now, other>>
    /\ IF ~is_started(current)
       THEN /\ ret' = Result("stop", message, "No project started.", None)
            /\ UNCHANGED <<tree, current>>
       ELSE LET old == current_get(current)
            IN  /\ NFrames(tree) < MaxFrames
                /\ tree' = add_frame(tree, old.project, arrow_now, old.start,
                                     message)
                /\ current' = current_set(NoneDict)
                /\ ret' = Result("stop", message, "", old)

stop(message) ==
    /\ sent' = << >>
    /\ UNCHANGED <<file, now, other>>
    /\ IF ~is_started(current)
       THEN /\ ret' = Result("stop", message, "No project started.", None)
            /\ UNCHANGED <<tree, current>>
       ELSE LET old == current_get(current)
            IN  /\ NFrames(tree) < MaxFrames
                /\ tree' = add_frame(tree, old.project, old.start, arrow_now,
                                     message)
                /\ current' = current_set(NoneDict)
                /\ ret' = Result("stop", message, "", old)

\* cancel that records the discarded session as a frame, the way stop does.
cancel_records ==
    /\ sent' = << >>
    /\ UNCHANGED <<file, now, other>>
    /\ IF ~is_started(current)
       THEN /\ ret' = Result("cancel", None, "No project started.", None)
            /\ UNCHANGED <<tree, current>>
       ELSE /\ NFrames(tree) < MaxFrames
            /\ tree' = add_frame(tree, current.project, current.start,
                                 arrow_now, None)
            /\ current' = current_set(NoneDict)
            /\ ret' = Result("cancel", None, "", current_get(current))

cancel ==
    /\ sent' = << >>
    /\ UNCHANGED <<tree, file, now, other>>
    /\ IF ~is_started(current)
       THEN /\ ret' = Result("cancel", None, "No project started.", None)
            /\ UNCHANGED current
       ELSE /\ current' = current_set(NoneDict)
            /\ ret' = Result("cancel", None, "", current_get(current))

\* Watson.add_frame as a call of its own.
AddFrame(project, start_, stop_, message) ==
    /\ NFrames(tree) < MaxFrames
    /\ tree' = add_frame(tree, project, start_, stop_, message)
    /\ ret' = Result("add_frame", project, "", None)
    /\ sent' = << >>
    /\ UNCHANGED <<current, file, now, other>>

\* Watson.project as a call of its own; it returns the node.
Project(name) ==
    /\ tree' = project_tree(tree, name)
    /\ ret' = Result("project", name, "", project_node(name))
    /\ sent' = << >>
    /\ UNCHANGED <<current, file, now, other>>

\* ------------------------------------------------------------ persistence

\* Watson.dump
dump(t, c) ==
    IF is_started(c)
    THEN [projects |-> t,
          current |-> [project |-> current_get(c).project,
                       start |-> _format_date(current_get(c).start)]]
    ELSE [projects |-> t]

\* What is at self.filename: nothing, or a file of `size` bytes which is
\* valid JSON (the document `doc`) or not.  A zero-length file is not valid
\* JSON.
NoFile == [kind |-> "absent"]
BadFile(size) == [kind |-> "file", size |-> size, valid |-> FALSE]
JsonFile(doc) ==
    [kind |-> "file", size |-> 2 + Cardinality(DOMAIN doc), valid |-> TRUE,
     doc |-> doc]

\* _load_watson_file without the test of the file's size.
_load_watson_file_strict(f) ==
    IF f.kind = "absent" THEN [err |-> "", content |-> << >>]
    ELSE IF f.valid THEN [err |-> "", content |-> f.doc]
    ELSE [err |-> "Invalid Watson file", content |-> << >>]

\* Watson._load_watson_file: [err, content]
_load_watson_file(f) ==
    IF f.kind = "absent" THEN [err |-> "", content |-> << >>]      \* IOError
    ELSE IF f.valid THEN [err |-> "", content |-> f.doc]
    ELSE IF f.size = 0 THEN [err |-> "", content |-> << >>]        \* ValueError
    ELSE [err |-> "Invalid Watson file", content |-> << >>]

\* Watson._load on a parsed document: [tree, current]
_load(content) ==
    [tree |-> IF "projects" \in DOMAIN content THEN content.projects
              ELSE EmptyTree,
     current |-> current_set(IF "current" \in DOMAIN content
                             THEN content.current ELSE NoneDict)]

\* Watson(): a new object built from the Watson file replaces the old one;
\* when the constructor raises, there is no new object.
Load ==
    LET r == _load_watson_file(file)
    IN  /\ sent' = << >>
        /\ UNCHANGED <<file, now, other>>
        /\ IF r.err # ""
           THEN /\ ret' = Result("load", None, r.err, None)
                /\ UNCHANGED <<tree, current>>
           ELSE /\ tree' = _load(r.content).tree
                /\ current' = _load(r.content).current
                /\ ret' = Result("load", None, "", None)

\* save that updates the document found in the Watson file instead of
\* replacing it: keys and project nodes that the store does not have stay.
save_update(opened) ==
    LET old == IF file.kind = "file" /\ file.valid THEN file.doc ELSE << >>
        new == dump(tree, current)
        kept == IF "projects" \in DOMAIN old THEN old.projects ELSE EmptyTree
        merged == [k \in DOMAIN old \cup DOMAIN new |->
                    IF k = "projects"
                    THEN [n \in DOMAIN kept \cup DOMAIN tree |->
                            IF n \in DOMAIN tree THEN tree[n] ELSE kept[n]]
                    ELSE IF k \in DOMAIN new THEN new[k] ELSE old[k]]
    IN  /\ sent' = << >>
        /\ UNCHANGED <<tree, current, now, other>>
        /\ IF opened
           THEN /\ file' = JsonFile(merged)
                /\ ret' = Result("save", None, "", None)
           ELSE /\ ret' = Result("save", None,
                                 "Impossible to open Watson file", None)
                /\ UNCHANGED file

\* Watson.save; `opened` is whether open(self.filename, 'w+') succeeds.
save(opened) ==
    /\ sent' = << >>
    /\ UNCHANGED <<tree, current, now, other>>
    /\ IF opened
       THEN /\ file' = JsonFile(dump(tree, current))
            /\ ret' = Result("save", None, "", None)
       ELSE /\ ret' = Result("save", None, "Impossible to open Watson file", None)
            /\ UNCHANGED file

\* ------------------------------------------------------------------ push

\* str(arrow): the ISO text of an instant
str(a) == [kind |-> "str", t |-> a.t]

\* The tuple `frames` of push built from the frames in the order of the tree.
push_frames_unsorted(t) ==
    LET fs == frames_unsorted(t)
    IN  [i \in 1..Len(fs) |->
            [id |-> fs[i].id,
             start |-> str(fs[i].start),
             stop |-> str(fs[i].stop),
             project |-> split(fs[i].project)]]

\* The tuple `frames` of Watson.push: new dicts built from self.frames().
push_frames(t) ==
    LET fs == frames(t)
    IN  [i \in 1..Len(fs) |->
            [id |-> fs[i].id,
             start |-> str(fs[i].start),
             stop |-> str(fs[i].stop),
             project |-> split(fs[i].project)]]

HasNoId(f) == f.id = None
HasId(f) == f.id # None

\* new_frames and existing_frames, from the tuple `frames` of push.
new_frames(fs) == SelectSeq(fs, HasNoId)

\* existing_frames without the test of `force`.
existing_frames_forced(fs, force) == SelectSeq(fs, HasId)

existing_frames(fs, force) ==
    IF force THEN SelectSeq(fs, HasId) ELSE << >>

Min(a, b) == IF a < b THEN a ELSE b

\* for frame, _id in zip(new_frames, ids): frame['id'] = _id;
\* del frame['project'].  The dicts changed are those of the tuple built in
\* push, not the raw frames of self.tree.
assign_ids(new, ids) ==
    [i \in 1..Len(new) |->
        IF i <= Min(Len(new), Len(ids))
        THEN [id |-> ids[i], start |-> new[i].start, stop |-> new[i].stop]
        ELSE new[i]]

\* push that picks the frames to update after the creation request, among
\* the frames that have an id by then.
push_updates_created(fs, force, configured, post, put) ==
    LET new == new_frames(fs)
        posted == IF new # << >>
                  THEN <<[method |-> "POST", frames |-> new]>> ELSE << >>
        post_err == IF new = << >> THEN ""
                    ELSE IF post.raises
                         THEN "Unable to reach the server."
                    ELSE IF post.status_code # 201
                         THEN "An error occured with the remote server"
                    ELSE ""
        created == IF new # << >> /\ post_err = ""
                   THEN assign_ids(new, post.json) ELSE new
        existing == IF force
                    THEN SelectSeq(fs, HasId) \o SelectSeq(created, HasId)
                    ELSE << >>
        putted == IF existing # << >>
                  THEN <<[method |-> "PUT", frames |-> existing]>> ELSE << >>
        put_err == IF existing_frames(fs, force) = << >> THEN ""
                   ELSE IF put.raises
                        THEN "Unable to reach the server."
                   ELSE IF put.status_code # 200
                        THEN "An error occured with the remote server"
                   ELSE ""
    IN  /\ UNCHANGED <<tree, current, file, now, other>>
        /\ IF ~configured
           THEN /\ sent' = << >>
                /\ ret' = Result("push", force, "You must specify a remote URL", None)
           ELSE IF post_err # ""
           THEN /\ sent' = posted
                /\ ret' = Result("push", force, post_err, None)
           ELSE IF put_err # ""
           THEN /\ sent' = posted \o putted
                /\ ret' = Result("push", force, put_err, None)
           ELSE /\ sent' = posted \o putted
                /\ ret' = Result("push", force, "", created)

\* push that goes on to the update request when the creation request failed.
push_goes_on(fs, force, configured, post, put) ==
    LET new == new_frames(fs)
        existing == existing_frames(fs, force)
        posted == IF new # << >>
                  THEN <<[method |-> "POST", frames |-> new]>> ELSE << >>
        post_err == IF new = << >> THEN ""
                    ELSE IF post.raises
                         THEN "Unable to reach the server."
                    ELSE IF post.status_code # 201
                         THEN "An error occured with the remote server"
                    ELSE ""
        putted == IF existing # << >>
                  THEN <<[method |-> "PUT", frames |-> existing]>> ELSE << >>
    IN  /\ UNCHANGED <<tree, current, file, now, other>>
        /\ sent' = IF configured THEN posted \o putted ELSE << >>
        /\ ret' = IF ~configured
                  THEN Result("push", force, "You must specify a remote URL", None)
                  ELSE IF post_err # ""
                  THEN Result("push", force, post_err, None)
                  ELSE Result("push", force, "", new)

\* Watson.push.  fs: its tuple `frames`, built from self.frames().
\* configured: the config file names the remote url and token.
\* post, put: what requests.post and requests.put do when called:
\* [raises |-> TRUE] (a requests.ConnectionError), or the response
\* [raises |-> FALSE, status_code |-> code, json |-> body].
push(fs, force, configured, post, put) ==
    LET new == new_frames(fs)
        existing == existing_frames(fs, force)
        posted == IF new # << >>
                  THEN <<[method |-> "POST", frames |-> new]>> ELSE << >>
        post_err == IF new = << >> THEN ""
                    ELSE IF post.raises
                         THEN "Unable to reach the server."
                    ELSE IF post.status_code # 201
                         THEN "An error occured with the remote server"
                    ELSE ""
        created == IF new # << >> /\ post_err = ""
                   THEN assign_ids(new, post.json) ELSE new
        putted == IF existing # << >>
                  THEN <<[method |-> "PUT", frames |-> existing]>> ELSE << >>
        put_err == IF existing = << >> THEN ""
                   ELSE IF put.raises
                        THEN "Unable to reach the server."
                   ELSE IF put.status_code # 200
                        THEN "An error occured with the remote server"
                   ELSE ""
    IN  /\ UNCHANGED <<tree, current, file, now, other>>
        /\ IF ~configured
           THEN /\ sent' = << >>
                /\ ret' = Result("push", force, "You must specify a remote URL", None)
           ELSE IF post_err # ""
           THEN /\ sent' = posted
                /\ ret' = Result("push", force, post_err, None)
           ELSE IF put_err # ""
           THEN /\ sent' = posted \o putted
                /\ ret' = Result("push", force, put_err, None)
           ELSE /\ sent' = posted \o putted
                /\ ret' = Result("push", force, "", created)

\* ------------------------------------------------------------ inputs

\* The project names given to start; '' is the empty name.
Names == { <<"a", "/", "b">>, <<"a", "-">> }
Messages == {None, "m"}

\* The project names given to project and add_frame, and the instants given
\* to add_frame (start no later than stop).
TreeNames ==
    { <<"a", "/", "b">>, <<"a", "/", "b", "/", "c">>, <<"a", "/", "c">>,
      <<"a", "-">> }
Instants == {Arrow(0), Arrow(MaxClock)}

\* The project names of the runs that save and load.
FileNames == { <<"a", "/", "b">> }

\* The project names of the runs over every operation of the store: a path
\* and a name made of one space.
StoreNames == { <<"a", "/", "b">>, <<" ">> }

\* The identifiers the remote hands out, and the bodies of its answers to a
\* creation request of n frames: one identifier per frame in either of two
\* orders, or one identifier too few.
RemoteIds == <<"r1", "r2", "r3", "r4">>
IdLists(n) ==
    { [i \in 1..n |-> RemoteIds[i]], [i \in 1..n |-> RemoteIds[n + 1 - i]] }
    \cup (IF n > 0 THEN {[i \in 1..(n - 1) |-> RemoteIds[i]]} ELSE {})

\* What the remote does with a request of n frames; a request that push does
\* not issue has the one outcome NotCalled.
NotCalled == [raises |-> TRUE]

PostOutcomes(n) ==
    IF n = 0 THEN {NotCalled}
    ELSE {[raises |-> TRUE],
          [raises |-> FALSE, status_code |-> 400, json |-> "detail"]}
         \cup {[raises |-> FALSE, status_code |-> 201, json |-> ids] :
                  ids \in IdLists(n)}

PutOutcomes(n) ==
    IF n = 0 THEN {NotCalled}
    ELSE {[raises |-> TRUE],
          [raises |-> FALSE, status_code |-> 400, json |-> "detail"],
          [raises |-> FALSE, status_code |-> 200, json |-> "ok"]}

\* Whether a creation request that got `post` lets push go on.
Created(post) == ~post.raises /\ post.status_code = 201

\* The calls of push: [force, configured, post, put].  The update request is
\* issued only when the creation request, if any, succeeded.
PushCalls(fs) ==
    {[force |-> FALSE, configured |-> FALSE, post |-> NotCalled,
      put |-> NotCalled]}
    \cup UNION {
        {[force |-> force, configured |-> TRUE, post |-> post, put |-> put] :
            put \in PutOutcomes(IF new_frames(fs) = << >> \/ Created(post)
                                THEN Len(existing_frames(fs, force)) ELSE 0)} :
        <<force, post>> \in BOOLEAN \X PostOutcomes(Len(new_frames(fs)))}

\* Watson.push under every call of PushCalls.
Push ==
    LET fs == push_frames(tree)
    IN  \E c \in PushCalls(fs) : push(fs, c.force, c.configured, c.post, c.put)

\* A Watson file holding one frame that has been pushed before.
SyncedDoc ==
    [projects |->
        [add_frame(EmptyTree, <<"a", "/", "b">>, PyInt(0), PyInt(1), None)
            EXCEPT ![project_node(<<"a", "/", "b">>)].frames =
                <<[start |-> 0, stop |-> 1, id |-> "r0"]>>]]

\* The Watson file found at start-up.
InitialFiles == {NoFile, BadFile(0), BadFile(1), JsonFile(SyncedDoc)}

\* A process: its Watson object and what its latest call returned.  The
\* variables tree, current and ret are those of the process that is running;
\* `other` holds the process that is not, NoProcess when there is only one.
Process(t, c, r) == [tree |-> t, current |-> c, ret |-> r]
NoProcess == << >>

\* The processor goes to the other process: each Watson object lives in its
\* own process, and the two share the Watson file and the clock only.
Yield ==
    /\ other # NoProcess
    /\ tree' = other.tree
    /\ current' = other.current
    /\ ret' = other.ret
    /\ other' = Process(tree, current, ret)
    /\ sent' = << >>
    /\ UNCHANGED <<file, now>>

\* Watson(content={}) beside a Watson file f.
InitWith(f) ==
    /\ tree = _load(<< >>).tree
    /\ current = NoneDict
    /\ file = f
    /\ now = 0
    /\ ret = Result("init", None, "", None)
    /\ sent = << >>
    /\ other = NoProcess

\* The store as the command line drives it: the session, the clock, loading
\* the Watson file and pushing to the remote.
Init == \E f \in {NoFile, JsonFile(SyncedDoc)} : InitWith(f)

Next ==
    \/ Tick
    \/ \E p \in Names \cup {<< >>} : start(p)
    \/ \E m \in Messages : stop(m)
    \/ cancel
    \/ Load
    \/ Push

Spec == Init /\ [][Next]_vars

\* The tree: project and add_frame on their own, over deeper names.
InitTree == InitWith(NoFile)

NextTree ==
    \/ \E p \in TreeNames, s \in Instants, e \in Instants, m \in Messages :
            s.t <= e.t /\ AddFrame(p, s, e, m)
    \/ \E p \in TreeNames : Project(p)

SpecTree == InitTree /\ [][NextTree]_vars

\* Persistence: the session, save and load over every kind of Watson file.
InitFile == \E f \in InitialFiles : InitWith(f)

NextFile ==
    \/ Tick
    \/ \E p \in FileNames \cup {<< >>} : start(p)
    \/ \E m \in Messages : stop(m)
    \/ cancel
    \/ \E p \in FileNames : AddFrame(p, Arrow(0), Arrow(MaxClock), None)
    \/ Push
    \/ Load
    \/ \E opened \in BOOLEAN : save(opened)

SpecFile == InitFile /\ [][NextFile]_vars

\* The store in memory: every operation of Watson that reads or changes the
\* tree or the session, on one object, at one instant.
InitStore == \E f \in {NoFile, JsonFile(SyncedDoc)} : InitWith(f)

NextStore ==
    \/ \E p \in StoreNames \cup {<< >>} : start(p)
    \/ \E m \in Messages : stop(m)
    \/ cancel
    \/ \E p \in StoreNames, s \in Instants :
            AddFrame(p, s, Arrow(MaxClock), None)
    \/ \E p \in StoreNames : Project(p)
    \/ Push
    \/ Load

SpecStore == InitStore /\ [][NextStore]_vars

\* Two processes on one Watson file: each builds its Watson object from the
\* file, records sessions and saves, in any interleaving of their calls.
InitTwo ==
    /\ tree = _load(<< >>).tree
    /\ current = NoneDict
    /\ file = NoFile
    /\ now = 0
    /\ ret = Result("init", None, "", None)
    /\ sent = << >>
    /\ other = Process(_load(<< >>).tree, NoneDict,
                       Result("init", None, "", None))

NextTwo ==
    \/ \E p \in Names : start(p)
    \/ stop(None)
    \/ Load
    \/ \E opened \in BOOLEAN : save(opened)
    \/ Yield

SpecTwo == InitTwo /\ [][NextTwo]_vars

\* ------------------------------------------------------------------ claims

\* The instant an Arrow or an int stands for, in ticks, and its whole second.
TicksOf(x) == IF x.kind = "Arrow" THEN x.t ELSE x.t * TicksPerSec
SecondOf(x) == IF x.kind = "Arrow" THEN x.t \div TicksPerSec ELSE x.t

\* s without its k-th element.
RemoveAt(s, k) == [i \in 1..(Len(s) - 1) |-> IF i < k THEN s[i] ELSE s[i + 1]]

\* C1: start while a session is running fails, stop and cancel while no
\* session is running fail, and a failing call leaves the session and the
\* tree as they were.
C1_SessionExclusivity ==
    [][ /\ (ret'.op = "start" /\ is_started(current))
            => /\ ret'.err = "Project is already started."
               /\ current' = current
               /\ tree' = tree
        /\ (ret'.op \in {"stop", "cancel"} /\ ~is_started(current))
            => /\ ret'.err = "No project started."
               /\ current' = current
               /\ tree' = tree ]_vars

\* A start refused while a session runs and a frame is in the tree.
C1_Witness ==
    /\ ret.op = "start"
    /\ ret.err = "Project is already started."
    /\ is_started(current)
    /\ NFrames(tree) > 0

\* C2 as stated: stop at clock value t1 while Running(p, t0) leaves the
\* session idle and adds to frames() exactly the frame (p, t0, t1, no id).
C2_StopAddsExactFrame ==
    [][ (ret'.op = "stop" /\ is_started(current))
            => /\ ~is_started(current')
               /\ \E k \in 1..Len(frames(tree')) :
                    /\ RemoveAt(frames(tree'), k) = frames(tree)
                    /\ frames(tree')[k].project = current.project
                    /\ frames(tree')[k].id = None
                    /\ frames(tree')[k].start.t = TicksOf(current.start)
                    /\ frames(tree')[k].stop.t = now ]_vars

\* C2, amended: the frame added carries t0 and t1 cut to the whole second.
C2_StopAddsFrameToTheSecond ==
    [][ (ret'.op = "stop" /\ is_started(current))
            => /\ ~is_started(current')
               /\ \E k \in 1..Len(frames(tree')) :
                    /\ RemoveAt(frames(tree'), k) = frames(tree)
                    /\ frames(tree')[k].project = current.project
                    /\ frames(tree')[k].id = None
                    /\ frames(tree')[k].start.t
                         = SecondOf(current.start) * TicksPerSec
                    /\ frames(tree')[k].stop.t
                         = (now \div TicksPerSec) * TicksPerSec ]_vars

\* A session started between two seconds has been stopped in a later second,
\* with a frame already in the tree.
C2_Witness ==
    /\ ret.op = "stop"
    /\ ret.err = ""
    /\ ret.val.start.kind = "Arrow"
    /\ ret.val.start.t % TicksPerSec # 0
    /\ SecondOf(ret.val.start) < now \div TicksPerSec
    /\ NFrames(tree) = 2

\* The index in fs of its i-th frame that has no id.
NthNew(fs, i) ==
    CHOOSE k \in 1..Len(fs) :
        /\ fs[k].id = None
        /\ Cardinality({j \in 1..k : fs[j].id = None}) = i

\* The latest call was a push that created every frame of the store: none
\* had an id, all were submitted, and each got an identifier.
PushedAll(r, s, t) ==
    /\ r.op = "push"
    /\ r.err = ""
    /\ s # << >>
    /\ s[1].method = "POST"
    /\ Len(s[1].frames) = NFrames(t)
    /\ \A i \in 1..Len(r.val) : r.val[i].id # None

\* C3: after a push that created all N frames of the store, a second push
\* with force = false, with no call in between, sends no request and returns
\* no created frame.
C3_SyncIdempotence ==
    [][ (/\ PushedAll(ret, sent, tree)
         /\ ret'.op = "push"
         /\ ret'.arg = FALSE
         /\ ret'.err = "")
            => /\ sent' = << >>
               /\ ret'.val = << >> ]_vars

\* C4: after a push whose creation request got one identifier per frame, the
\* frame submitted at position i is reported by frames(), and written by
\* dump(), with the i-th identifier.
C4_IdsStoredByPosition ==
    [][ (/\ ret'.op = "push"
         /\ ret'.err = ""
         /\ sent' # << >>
         /\ sent'[1].method = "POST"
         /\ \A i \in 1..Len(ret'.val) : ret'.val[i].id # None)
            => \A i \in 1..Len(ret'.val) :
                /\ frames(tree')[NthNew(frames(tree), i)].id = ret'.val[i].id
                /\ frames(dump(tree', current').projects)
                        [NthNew(frames(tree), i)].id = ret'.val[i].id ]_vars

\* C5: a push with force = false sends no update request, and no frame that
\* has an id is in its creation request.
C5_NoUpdateWithoutForce ==
    (ret.op = "push" /\ ret.arg = FALSE)
        => \A r \in 1..Len(sent) :
            /\ sent[r].method # "PUT"
            /\ \A f \in 1..Len(sent[r].frames) : sent[r].frames[f].id = None

\* A push with force = false has sent a request from a store that holds both
\* a frame with an id and a frame without.
C5_Witness ==
    /\ ret.op = "push"
    /\ ret.arg = FALSE
    /\ sent # << >>
    /\ \E i \in 1..Len(frames(tree)) : frames(tree)[i].id # None
    /\ \E i \in 1..Len(frames(tree)) : frames(tree)[i].id = None

\* C6: a Watson built from dump() of the store has the same project paths,
\* the same frames in the same order in every node, ids and messages
\* included, and the same session: idle, or running on the same project from
\* the same second; the document has 'current' exactly when a session runs.
C6_RoundTrip ==
    LET doc == dump(tree, current)
        w == _load(doc)
    IN  /\ projects(w.tree) = projects(tree)
        /\ DOMAIN w.tree = DOMAIN tree
        /\ \A k \in DOMAIN tree : w.tree[k].frames = tree[k].frames
        /\ is_started(w.current) = is_started(current)
        /\ is_started(current)
            => /\ w.current.project = current.project
               /\ SecondOf(w.current.start) = SecondOf(current.start)
        /\ ("current" \in DOMAIN doc) = is_started(current)

\* A session started between two seconds runs in a later second, over a tree
\* that holds a frame with a message.
C6_Witness ==
    /\ is_started(current)
    /\ current.start.kind = "Arrow"
    /\ current.start.t % TicksPerSec # 0
    /\ SecondOf(current.start) < now \div TicksPerSec
    /\ \E k \in DOMAIN tree :
        \E j \in 1..Len(tree[k].frames) : "message" \in DOMAIN tree[k].frames[j]

\* C7: loading yields an empty store, without error, when the Watson file is
\* absent or has length zero, and raises when the file is not empty and
\* cannot be parsed.
C7_LoadOutcomes ==
    [][ ret'.op = "load"
            => /\ (file.kind = "absent" \/ file.size = 0)
                    => /\ ret'.err = ""
                       /\ tree' = EmptyTree
                       /\ current' = NoneDict
               /\ (file.kind = "file" /\ file.size > 0 /\ ~file.valid)
                    => /\ ret'.err = "Invalid Watson file"
                       /\ UNCHANGED <<tree, current>> ]_vars

\* A zero-length Watson file has been loaded and the store is empty.
C7_Witness ==
    /\ ret.op = "load"
    /\ ret.err = ""
    /\ file.kind = "file"
    /\ file.size = 0
    /\ tree = EmptyTree

\* The segments of a node's key joined by '/': the node's full path.
RECURSIVE JoinSegs(_)
JoinSegs(segs) ==
    IF Len(segs) = 1 THEN segs[1]
    ELSE segs[1] \o <<Sep>> \o JoinSegs(Tail(segs))

Nodes(t) == DOMAIN t \ {<< >>}

\* C8: project(path) a second time returns the node of the first call and
\* changes nothing; a call of project leaves every node that is not on the
\* path as it was, adds only nodes of the path, keeps each node's children
\* and changes no frame list.
C8_ProjectIdempotentLocal ==
    /\ [](\A p \in TreeNames :
            LET t1 == project_tree(tree, p)
            IN  /\ project_node(p) \in DOMAIN t1
                /\ project_tree(t1, p) = t1)
    /\ [][ ret'.op = "project"
            => /\ ret'.val \in DOMAIN tree'
               /\ ret'.val \in DOMAIN tree => tree' = tree
               /\ \A k \in DOMAIN tree' \ DOMAIN tree : IsPrefix(k, ret'.val)
               /\ \A k \in DOMAIN tree :
                    /\ k \in DOMAIN tree'
                    /\ tree'[k].frames = tree[k].frames
                    /\ IsPrefix(tree[k].projects, tree'[k].projects)
                    /\ ~IsPrefix(k, ret'.val) => tree'[k] = tree[k] ]_vars

\* project("a/b/c") has been called on a tree where "a" has the other child
\* "a/c", and both "a/b" and "a/c" hold a frame.
C8_Witness ==
    /\ ret.op = "project"
    /\ ret.arg = <<"a", "/", "b", "/", "c">>
    /\ split(<<"a", "/", "c">>) \in DOMAIN tree
    /\ tree[split(<<"a", "/", "c">>)].frames # << >>
    /\ tree[split(<<"a", "/", "b">>)].frames # << >>

\* C9: projects() lists the full path of every node of the tree, ancestors
\* that were never addressed included, in lexicographic order and without
\* duplicates; after project("a/b") on an empty tree it is ["a", "a/b"].
C9_ProjectsSortedPaths ==
    LET ps == projects(tree)
    IN  /\ \A i, j \in 1..Len(ps) : i < j => StrLess(ps[i], ps[j])
        /\ {ps[i] : i \in 1..Len(ps)} = {JoinSegs(k) : k \in Nodes(tree)}
        /\ tree = project_tree(EmptyTree, <<"a", "/", "b">>)
            => ps = << <<"a">>, <<"a", "/", "b">> >>

\* The tree holds "a-" and "a/b" below the ancestor "a", created in an order
\* that is not the lexicographic one.
C9_Witness ==
    /\ Len(projects(tree)) >= 3
    /\ projects(tree) # get_projects(tree, << >>, << >>, 1)
    /\ split(<<"a", "/", "b">>) \in DOMAIN tree
    /\ split(<<"a", "-">>) \in DOMAIN tree

\* The frame kept at position j of node k, as frames() reports it.
Reported(t, k, j) ==
    [project |-> JoinSegs(k),
     id |-> Get(t[k].frames[j], "id"),
     start |-> Arrow(t[k].frames[j].start * TicksPerSec),
     stop |-> Arrow(t[k].frames[j].stop * TicksPerSec)]

\* The places <<node, position>> where the tree keeps a frame.
Slots(t) == UNION {{<<k, j>> : j \in 1..Len(t[k].frames)} : k \in Nodes(t)}

\* C10: frames() reports every frame of the tree exactly once, with the full
\* path of its node as project, by non-decreasing start; frames of equal
\* start keep the order of the depth-first traversal, and within one node
\* the order of insertion.
C10_FramesSortedComplete ==
    LET fs == frames(tree)
        dfs == get_frames(tree, << >>, << >>, 1)
    IN  /\ Len(fs) = Cardinality(Slots(tree))
        /\ \A sl \in Slots(tree) :
            Cardinality({i \in 1..Len(fs) : fs[i] = Reported(tree, sl[1], sl[2])})
              = Cardinality({s2 \in Slots(tree) :
                    Reported(tree, s2[1], s2[2]) = Reported(tree, sl[1], sl[2])})
        /\ \A i, j \in 1..Len(fs) : i < j => fs[i].start.t <= fs[j].start.t
        /\ \A s \in {fs[i].start : i \in 1..Len(fs)} :
            LET AtS(f) == f.start = s
            IN  SelectSeq(fs, AtS) = SelectSeq(dfs, AtS)
        /\ \A k \in Nodes(tree) :
            \A s \in {fs[i].start : i \in 1..Len(fs)} :
                LET InNodeAtS(f) == f.project = JoinSegs(k) /\ f.start = s
                IN  SelectSeq(fs, InNodeAtS)
                      = SelectSeq([j \in 1..Len(tree[k].frames) |->
                                      Reported(tree, k, j)], InNodeAtS)

\* Two frames of different nodes start in the same second and stop in
\* different ones.
C10_Witness ==
    /\ Len(frames(tree)) = 2
    /\ frames(tree)[1].start = frames(tree)[2].start
    /\ frames(tree)[1].project # frames(tree)[2].project
    /\ frames(tree)[1].stop # frames(tree)[2].stop

\* C11: a push whose creation request is refused (a status other than 201)
\* or cannot be sent raises the matching error, has sent the creation
\* request once and nothing after it, also with force = true and frames that
\* have an id, and leaves the tree, so every frame's id, as it was.
C11_FailedCreateAborts ==
    [][ LET fs == push_frames(tree)
        IN  \A c \in PushCalls(fs) :
                ( /\ c.configured
                  /\ new_frames(fs) # << >>
                  /\ ~Created(c.post)
                  /\ push(fs, c.force, c.configured, c.post, c.put) )
                => /\ ret'.err = IF c.post.raises
                                 THEN "Unable to reach the server."
                                 ELSE "An error occured with the remote server"
                   /\ Len(sent') = 1
                   /\ sent'[1].method = "POST"
                   /\ tree' = tree ]_vars

\* A push with force = true has been refused by the remote on its creation
\* request, from a store that holds a frame with an id.
C11_Witness ==
    /\ ret.op = "push"
    /\ ret.arg = TRUE
    /\ ret.err = "An error occured with the remote server"
    /\ Len(sent) = 1
    /\ sent[1].method = "POST"
    /\ \E i \in 1..Len(frames(tree)) : frames(tree)[i].id # None

\* C12: cancel while a session runs leaves the session idle, returns the
\* project and the start of the session discarded, and leaves the tree as it
\* was: frames() and projects() are the same before and after.
C12_CancelDiscards ==
    [][ (ret'.op = "cancel" /\ is_started(current))
            => /\ ~is_started(current')
               /\ ret'.err = ""
               /\ ret'.val = [project |-> current.project,
                              start |-> current.start]
               /\ frames(tree') = frames(tree)
               /\ projects(tree') = projects(tree)
               /\ tree' = tree ]_vars

\* A session on "a-" has been cancelled while the tree holds a frame and
\* no node "a-".
C12_Witness ==
    /\ ret.op = "cancel"
    /\ ret.err = ""
    /\ ret.val.project = <<"a", "-">>
    /\ ~InSeq(<<"a", "-">>, projects(tree))
    /\ NFrames(tree) > 0

\* A name that is empty or made of white space only.
IsBlank(name) == \A i \in 1..Len(name) : name[i] = " "

\* C13: start while no session runs fails with "No project given." and
\* leaves the session idle when the name is empty or blank; with any other
\* name it leaves a session running on that name, started now.
C13_StartRejectsBlank ==
    [][ (ret'.op = "start" /\ ~is_started(current))
            => IF IsBlank(ret'.arg)
               THEN /\ ret'.err = "No project given."
                    /\ ~is_started(current')
               ELSE /\ ret'.err = ""
                    /\ current' = [project |-> ret'.arg,
                                   start |-> Arrow(now)] ]_vars

\* C14: start, stop, cancel, add_frame and push leave the Watson file as it
\* was, and only a save that succeeds changes it; the file then holds the
\* tree as 'projects', the running session (its project, its start in
\* seconds) as 'current' when there is one, and nothing else.
C14_OnlySaveWrites ==
    [][ /\ ret'.op \in {"start", "stop", "cancel", "add_frame", "push"}
            => file' = file
        /\ file' # file => (ret'.op = "save" /\ ret'.err = "")
        /\ (ret'.op = "save" /\ ret'.err = "")
            => /\ file'.kind = "file"
               /\ file'.valid
               /\ DOMAIN file'.doc
                    = IF is_started(current) THEN {"projects", "current"}
                      ELSE {"projects"}
               /\ file'.doc.projects = tree
               /\ is_started(current)
                    => file'.doc.current
                         = [project |-> current.project,
                            start |-> SecondOf(current.start)]
               /\ UNCHANGED <<tree, current>> ]_vars

\* A save has succeeded while no session runs and the tree holds two frames,
\* none of them with an id: nothing of a Watson file found at start-up is left.
C14_Witness ==
    /\ ret.op = "save"
    /\ ret.err = ""
    /\ ~is_started(current)
    /\ NFrames(tree) = 2
    /\ \A i \in 1..Len(frames(tree)) : frames(tree)[i].id = None
    /\ file.doc.projects = tree

\* C15: when a process saves, the Watson file holds the frames of that
\* process alone: whatever the other process has written before, after
\* loading the same document and recording a frame of its own, is gone, and
\* the save reports nothing but a file that cannot be opened.
C15_LastSaverWins ==
    [][ (ret'.op = "save" /\ other' = other)
            => /\ ret'.err \in {"", "Impossible to open Watson file"}
               /\ ret'.err = ""
                    => /\ file'.doc.projects = tree
                       /\ frames(file'.doc.projects) = frames(tree)
                       /\ \A k \in DOMAIN other.tree \ DOMAIN tree :
                            k \notin DOMAIN file'.doc.projects ]_vars

\* Both processes have recorded one frame, on different projects, and the
\* latest call of each is a save that succeeded; the file holds the frame of
\* the process that saved last and not the frame of the other.
C15_Witness ==
    /\ ret.op = "save"
    /\ ret.err = ""
    /\ other.ret.op = "save"
    /\ other.ret.err = ""
    /\ NFrames(tree) = 1
    /\ NFrames(other.tree) = 1
    /\ project_node(<<"a", "-">>) \in DOMAIN tree \ DOMAIN other.tree
    /\ project_node(<<"a", "/", "b">>) \in DOMAIN other.tree \ DOMAIN tree
    /\ file.doc.projects = tree
    /\ project_node(<<"a", "/", "b">>) \notin DOMAIN file.doc.projects

\* The number of frames of fs that have no id, and the ids of the others.
Unsynced(fs) == Cardinality({i \in 1..Len(fs) : fs[i].id = None})
SyncedIds(fs) == {fs[i].id : i \in {j \in 1..Len(fs) : fs[j].id # None}}

\* C16: a push with force = true from a store that holds frames without id
\* and frames with an id sends the creation request first and once, then at
\* most one update request; the update request carries the frames that had an
\* id when push was called, each once, and none that this push created; a
\* push that succeeds has sent both; the tree, so every id, stays as it was.
C16_CreateThenUpdate ==
    [][ LET fs == frames(tree)
        IN  ( /\ ret'.op = "push"
              /\ ret'.arg = TRUE
              /\ ret'.err # "You must specify a remote URL"
              /\ Unsynced(fs) > 0
              /\ Unsynced(fs) < Len(fs) )
            => /\ Len(sent') \in {1, 2}
               /\ sent'[1].method = "POST"
               /\ ret'.err = "" => Len(sent') = 2
               /\ Len(sent') = 2
                    => /\ sent'[2].method = "PUT"
                       /\ Len(sent'[2].frames) = Len(fs) - Unsynced(fs)
                       /\ SyncedIds(sent'[2].frames) = SyncedIds(fs)
                       /\ Unsynced(sent'[2].frames) = 0
                       /\ \A i \in 1..Len(sent'[2].frames) :
                            \E j \in 1..Len(fs) :
                                /\ fs[j].id = sent'[2].frames[i].id
                                /\ str(fs[j].start) = sent'[2].frames[i].start
                                /\ str(fs[j].stop) = sent'[2].frames[i].stop
                                /\ fs[j].project
                                     = JoinSegs(sent'[2].frames[i].project)
               /\ tree' = tree
               /\ frames(tree') = fs ]_vars

\* A push with force = true has succeeded with a creation request followed
\* by an update request, and has returned a frame it created.
C16_Witness ==
    /\ ret.op = "push"
    /\ ret.arg = TRUE
    /\ ret.err = ""
    /\ Len(sent) = 2
    /\ sent[2].method = "PUT"
    /\ Len(ret.val) = 1
    /\ ret.val[1].id # None

\* C17: a push that finds the remote configured sends, when some frame has
\* no id, exactly one creation request; its batch holds the frames without
\* id, each once, by non-decreasing start, each with its start, its stop and
\* its project as the list of the segments between '/'; when every frame has
\* an id it sends no creation request.
C17_CreationBatch ==
    [][ (ret'.op = "push" /\ ret'.err # "You must specify a remote URL")
            => LET fs == frames(tree)
                   IsPost(r) == r.method = "POST"
                   posts == SelectSeq(sent', IsPost)
               IN  IF Unsynced(fs) = 0 THEN posts = << >>
                   ELSE /\ Len(posts) = 1
                        /\ Len(posts[1].frames) = Unsynced(fs)
                        /\ \A i \in 1..Unsynced(fs) :
                            LET b == posts[1].frames[i]
                                f == fs[NthNew(fs, i)]
                            IN  /\ b.id = None
                                /\ b.start = str(f.start)
                                /\ b.stop = str(f.stop)
                                /\ JoinSegs(b.project) = f.project
                                /\ \A j \in 1..Len(b.project) :
                                    ~InSeq(Sep, b.project[j])
                        /\ \A i, j \in 1..Unsynced(fs) :
                            i < j => posts[1].frames[i].start.t
                                       <= posts[1].frames[j].start.t ]_vars

\* A creation request has carried two frames of different projects, the
\* frame of the later start being the first of the two in the tree.
C17_Witness ==
    /\ ret.op = "push"
    /\ sent # << >>
    /\ sent[1].method = "POST"
    /\ Len(sent[1].frames) = 2
    /\ sent[1].frames[1].start.t < sent[1].frames[2].start.t
    /\ sent[1].frames[1].project # sent[1].frames[2].project
    /\ frames_unsorted(tree) # frames(tree)

\* C18: start, stop, cancel, add_frame, project and push remove no node, and
\* leave in every node the frames it had, unchanged and in their order, at
\* the head of its list, and its children in their order.
C18_AppendOnly ==
    [][ ret'.op \in {"start", "stop", "cancel", "add_frame", "project", "push"}
            => \A k \in DOMAIN tree :
                /\ k \in DOMAIN tree'
                /\ IsPrefix(tree[k].frames, tree'[k].frames)
                /\ \A j \in 1..Len(tree[k].frames) :
                    /\ tree'[k].frames[j].start = tree[k].frames[j].start
                    /\ tree'[k].frames[j].stop = tree[k].frames[j].stop
                    /\ Get(tree'[k].frames[j], "message")
                         = Get(tree[k].frames[j], "message")
                /\ IsPrefix(tree[k].projects, tree'[k].projects) ]_vars

\* A frame has been added to a node that held a frame with a message.
C18_Witness ==
    /\ ret.op \in {"stop", "add_frame"}
    /\ ret.err = ""
    /\ \E k \in Nodes(tree) :
        /\ Len(tree[k].frames) = 2
        /\ "message" \in DOMAIN tree[k].frames[1]
        /\ tree[k].frames[1] # tree[k].frames[2]

\* C19: every frame of the tree starts no later than it stops, and so does
\* the frame that stop adds for the session it ends, also when the session
\* was saved and loaded in between.
C19_StartBeforeStop ==
    /\ [](\A sl \in Slots(tree) :
            tree[sl[1]].frames[sl[2]].start <= tree[sl[1]].frames[sl[2]].stop)
    /\ [][ (ret'.op = "stop" /\ ret'.err = "")
            => LET fs == tree'[project_node(ret'.val.project)].frames
               IN  /\ fs[Len(fs)].start = SecondOf(ret'.val.start)
                   /\ fs[Len(fs)].stop = now \div TicksPerSec
                   /\ fs[Len(fs)].start <= fs[Len(fs)].stop ]_vars

\* A session that was loaded from the Watson file has been stopped in a
\* later second than it started in.
C19_Witness ==
    /\ ret.op = "stop"
    /\ ret.err = ""
    /\ ret.val.start.kind = "int"
    /\ ret.val.start.t < now \div TicksPerSec
    /\ \E sl \in Slots(tree) :
        tree[sl[1]].frames[sl[2]].start < tree[sl[1]].frames[sl[2]].stop

\* C20: start leaves the tree as it was, so projects() and frames() too;
\* stop puts the node of the session's project in the tree; cancel leaves
\* the tree as it was, so a project that was started and cancelled is in
\* projects() only if it was before.
C20_SessionOutsideTree ==
    [][ /\ ret'.op = "start"
            => /\ tree' = tree
               /\ projects(tree') = projects(tree)
               /\ frames(tree') = frames(tree)
        /\ (ret'.op = "cancel" /\ ret'.err = "")
            => /\ projects(tree') = projects(tree)
               /\ InSeq(ret'.val.project, projects(tree'))
                    = InSeq(ret'.val.project, projects(tree))
        /\ (ret'.op = "stop" /\ ret'.err = "")
            => /\ project_node(ret'.val.project) \in DOMAIN tree'
               /\ InSeq(ret'.val.project, projects(tree')) ]_vars

\* A session has been started on "a-" while the tree holds a frame and no
\* node "a-".
C20_Witness ==
    /\ ret.op = "start"
    /\ ret.err = ""
    /\ is_started(current)
    /\ current.project = <<"a", "-">>
    /\ ~InSeq(<<"a", "-">>, projects(tree))
    /\ NFrames(tree) > 0

====
